---- MODULE Spec2Model ----
(***************************************************************************)
(* Model of RedshiftKBDiagnostic (diagnose_redshift_kb_issues.py).         *)
(*                                                                         *)
(* The tool is a sequential orchestrator over four cloud APIs.  Every API  *)
(* response is an input of the model: it is chosen when the call is made   *)
(* (the probe) or scripted in the initial state (the layers above it).     *)
(* Each method is checked under a specification of its own:                *)
(*   SpecProbe       test_database_connectivity, _get_schema_info,         *)
(*                   _wait_for_statement, one step per API call            *)
(*   SpecProbeFair   the same, with the fairness of a running process      *)
(*   SpecNamespace   get_namespace_details                                 *)
(*   SpecWorkgroups  get_workgroups_for_namespace                          *)
(*   SpecDiagnose    diagnose_namespace and _analyze_issues                *)
(*   Spec            compare_namespaces, one step per call it makes        *)
(*   SpecIam         check_iam_permissions and _get_role_policies          *)
(*   SpecKnowledgeBases  get_knowledge_bases_using_workgroup               *)
(*   SpecMain        the two entry points, one step per call of main       *)
(***************************************************************************)
EXTENDS Integers, Sequences, FiniteSets, TLC

VARIABLES
    pc,            \* position of the running method
    stage,         \* probe: 1 identity query, 2 table count, 3 sample names
    polls,         \* probe: describe_statement calls made by the running stage
    sleeps,        \* probe: time.sleep(1) calls made by the running stage
    seen,          \* probe: how each stage's statement ended
    test_results,  \* probe: the dict built by test_database_connectivity
    escaped,       \* probe: an exception left test_database_connectivity
    call,          \* a method call: its arguments and the API responses it gets
    ret,           \* the outcome of the call: a returned value, or a raise
    working_diagnosis,  \* compare_namespaces: diagnosis of the working namespace
    broken_diagnosis,   \* compare_namespaces: diagnosis of the broken namespace
    comparison,         \* compare_namespaces: the comparison dict
    calls               \* compare_namespaces: the calls made so far, in order

probeVars == <<stage, polls, sleeps, seen, test_results, escaped>>
callVars == <<call, ret>>
compareVars == <<working_diagnosis, broken_diagnosis, comparison, calls>>
vars == <<pc, stage, polls, sleeps, seen, test_results, escaped, call, ret,
          working_diagnosis, broken_diagnosis, comparison, calls>>

(***************************************************************************)
(* Values                                                                  *)
(***************************************************************************)
None == "None"                      \* Python's None
UnknownError == "Unknown error"     \* default of status_response.get('Error', ...)

max_wait == 30

\* Texts the Data API may give in a FAILED status' Error key.
ApiErrors == {"database does not exist"}
\* str(e) of an exception raised by an API call of the probe.
ExceptionTexts == {"AccessDenied"}
\* Row counts the count query may report.
MaxTables == 3
TableCounts == 0..MaxTables
\* Rows of the sample query (LIMIT 5).
SampleRows == {<<>>, <<"t1">>, <<"t1", "t2">>}

Stages == 1..3

(***************************************************************************)
(* test_database_connectivity                                              *)
(***************************************************************************)
NewTestResults ==
    [connectivity |-> FALSE, error |-> None, tables_count |-> 0,
     schemas |-> <<>>, sample_tables |-> <<>>]

\* compare_namespaces is not running.
CompareIdle ==
    /\ working_diagnosis = <<>>
    /\ broken_diagnosis = <<>>
    /\ comparison = <<>>
    /\ calls = <<>>

ProbeIdle ==
    /\ stage = 0
    /\ polls = 0
    /\ sleeps = 0
    /\ seen = [s \in Stages |-> "none"]
    /\ test_results = NewTestResults
    /\ escaped = FALSE

\* Entry of test_database_connectivity: test_results initialised, about to
\* submit the identity query.
InitProbe ==
    /\ pc = "execute"
    /\ stage = 1
    /\ polls = 0
    /\ sleeps = 0
    /\ seen = [s \in Stages |-> "none"]
    /\ test_results = NewTestResults
    /\ escaped = FALSE
    /\ call = <<>>
    /\ ret = <<>>
    /\ CompareIdle

\* Faulty variant of OnException: _get_schema_info has no try of its own, so
\* the except of test_database_connectivity records every exception.
OnExceptionRecorded(text) ==
    /\ test_results' = [test_results EXCEPT !.error = text]
    /\ pc' = "returned"

\* An exception raised while stage s runs.  Stage 1 runs inside the try of
\* test_database_connectivity (error recorded); stages 2 and 3 run inside
\* the try of _get_schema_info (logged only).
OnException(text) ==
    /\ test_results' = IF stage = 1
                         THEN [test_results EXCEPT !.error = text]
                         ELSE test_results
    /\ pc' = "returned"

\* execute_statement returns a statement Id; the polling loop of the stage
\* starts with a fresh counter.
ExecuteStatement ==
    /\ pc = "execute"
    /\ pc' = "poll"
    /\ polls' = 0
    /\ sleeps' = 0
    /\ UNCHANGED <<stage, seen, test_results, escaped>>
    /\ UNCHANGED <<callVars, compareVars>>

\* execute_statement raises.
ExecuteStatementRaises ==
    /\ pc = "execute"
    /\ \E text \in ExceptionTexts : OnException(text)
    /\ seen' = [seen EXCEPT ![stage] = "raised"]
    /\ UNCHANGED <<stage, polls, sleeps, escaped>>
    /\ UNCHANGED <<callVars, compareVars>>

\* Faulty variant of LoopRuns: the loop runs once more than max_wait.
LoopRunsOnceMore == polls <= max_wait

\* The loop condition of `for _ in range(max_wait)`.
LoopRuns == polls < max_wait

\* describe_statement reports FINISHED.
DescribeFinished ==
    /\ pc = "poll"
    /\ LoopRuns
    /\ polls' = polls + 1
    /\ seen' = [seen EXCEPT ![stage] = "FINISHED"]
    /\ IF stage = 1
         THEN \* connectivity = True; break; _get_schema_info is entered
              /\ test_results' = [test_results EXCEPT !.connectivity = TRUE]
              /\ stage' = 2
              /\ pc' = "execute"
         ELSE \* _wait_for_statement returns
              /\ pc' = "result"
              /\ UNCHANGED <<stage, test_results>>
    /\ UNCHANGED <<sleeps, escaped>>
    /\ UNCHANGED <<callVars, compareVars>>

\* Faulty variant of DescribeFailed: the FAILED branch of the identity query returns
\* without recording the error.
DescribeFailedDropsError ==
    /\ pc = "poll"
    /\ LoopRuns
    /\ polls' = polls + 1
    /\ seen' = [seen EXCEPT ![stage] = "FAILED"]
    /\ pc' = "returned"
    /\ UNCHANGED <<stage, sleeps, test_results, escaped>>
    /\ UNCHANGED <<callVars, compareVars>>

\* describe_statement reports FAILED, with or without an Error text.
DescribeFailed ==
    /\ pc = "poll"
    /\ LoopRuns
    /\ polls' = polls + 1
    /\ seen' = [seen EXCEPT ![stage] = "FAILED"]
    /\ \E err \in ApiErrors \cup {UnknownError} :
         IF stage = 1
           THEN \* error = status_response.get('Error', ...); return
                /\ test_results' = [test_results EXCEPT !.error = err]
                /\ pc' = "returned"
           ELSE \* raise Exception("Statement failed: ...")
                OnException(err)
    /\ UNCHANGED <<stage, sleeps, escaped>>
    /\ UNCHANGED <<callVars, compareVars>>

\* describe_statement reports a status that is neither FINISHED nor FAILED
\* (SUBMITTED, PICKED, STARTED, ABORTED); the loop sleeps one second.
DescribePending ==
    /\ pc = "poll"
    /\ LoopRuns
    /\ polls' = polls + 1
    /\ sleeps' = sleeps + 1
    /\ UNCHANGED <<pc, stage, seen, test_results, escaped>>
    /\ UNCHANGED <<callVars, compareVars>>

\* describe_statement raises.
DescribeRaises ==
    /\ pc = "poll"
    /\ LoopRuns
    /\ polls' = polls + 1
    /\ seen' = [seen EXCEPT ![stage] = "raised"]
    /\ \E text \in ExceptionTexts : OnException(text)
    /\ UNCHANGED <<stage, sleeps, escaped>>
    /\ UNCHANGED <<callVars, compareVars>>

\* The for loop ends without a terminal status.  Stage 1: the loop falls
\* through to `if test_results['connectivity']`, which is false.  Stages 2
\* and 3: _wait_for_statement raises Exception("Statement timeout").
LoopExhausted ==
    /\ pc = "poll"
    /\ ~LoopRuns
    /\ seen' = [seen EXCEPT ![stage] = "timeout"]
    /\ IF stage = 1
         THEN /\ pc' = "returned"
              /\ UNCHANGED test_results
         ELSE OnException("Statement timeout")
    /\ UNCHANGED <<stage, polls, sleeps, escaped>>
    /\ UNCHANGED <<callVars, compareVars>>

\* get_statement_result of the count query: Records empty, or one row.
GetCountResult ==
    /\ pc = "result"
    /\ stage = 2
    /\ \E records \in {<<>>} \cup {<<n>> : n \in TableCounts} :
         LET count == IF records # <<>> THEN records[1]
                                        ELSE test_results.tables_count
         IN /\ test_results' = [test_results EXCEPT !.tables_count = count]
            /\ IF count > 0
                 THEN /\ stage' = 3
                      /\ pc' = "execute"
                 ELSE /\ pc' = "returned"
                      /\ UNCHANGED stage
    /\ UNCHANGED <<polls, sleeps, seen, escaped>>
    /\ UNCHANGED <<callVars, compareVars>>

\* get_statement_result of the sample query.
GetSampleResult ==
    /\ pc = "result"
    /\ stage = 3
    /\ \E rows \in SampleRows :
         test_results' = [test_results EXCEPT !.sample_tables = rows]
    /\ pc' = "returned"
    /\ UNCHANGED <<stage, polls, sleeps, seen, escaped>>
    /\ UNCHANGED <<callVars, compareVars>>

\* get_statement_result raises (or a row lacks the expected cell).
GetResultRaises ==
    /\ pc = "result"
    /\ \E text \in ExceptionTexts : OnException(text)
    /\ seen' = [seen EXCEPT ![stage] = "raised"]
    /\ UNCHANGED <<stage, polls, sleeps, escaped>>
    /\ UNCHANGED <<callVars, compareVars>>

NextProbe ==
    \/ ExecuteStatement
    \/ ExecuteStatementRaises
    \/ DescribeFinished
    \/ DescribeFailed
    \/ DescribePending
    \/ DescribeRaises
    \/ LoopExhausted
    \/ GetCountResult
    \/ GetSampleResult
    \/ GetResultRaises

SpecProbe == InitProbe /\ [][NextProbe]_vars

\* The interpreter keeps running the call until it returns.
SpecProbeFair == SpecProbe /\ WF_vars(NextProbe)

(***************************************************************************)
(* Method outcomes.  A method either returns a value or lets an exception  *)
(* escape to its caller.                                                   *)
(***************************************************************************)
Return(v) == [raised |-> FALSE, value |-> v]
Raise(v) == [raised |-> TRUE, value |-> v]

\* No call made yet.
NoCall == <<>>

(***************************************************************************)
(* get_namespace_details                                                   *)
(***************************************************************************)
NamespaceIds == {"9e7060fb", "6e551b08"}
NamespaceNames == {"ns-working", "ns-broken"}
DbNames == {None, "analytics"}

\* The empty dict {}: `not details` is true of it alone.
EmptyDict == [namespaceId |-> None, namespaceName |-> None, dbName |-> None]

\* A namespace as redshift-serverless describes it (dbName may be absent).
Namespaces ==
    [namespaceId : NamespaceIds, namespaceName : NamespaceNames, dbName : DbNames]

\* Longest list_namespaces / list_workgroups page looked at.
MaxListing == 2

SeqsUpTo(S, n) == UNION {[1..k -> S] : k \in 0..n}

\* Responses of get_namespace: the namespace, or an exception.
GetNamespaceResponses ==
    [ok : {TRUE}, namespace : Namespaces]
        \cup {[ok |-> FALSE, namespace |-> EmptyDict]}

\* Responses of list_namespaces: a page of namespaces, or an exception.
ListNamespacesResponses ==
    [ok : {TRUE}, namespaces : SeqsUpTo(Namespaces, MaxListing)]
        \cup {[ok |-> FALSE, namespaces |-> <<>>]}

\* Index of the first namespace of the page whose namespaceId is the
\* identifier, 0 when there is none: the for loop of lines 56-59.
RECURSIVE FirstWithId(_, _, _)
FirstWithId(namespaces, namespace_id, i) ==
    IF i > Len(namespaces) THEN 0
    ELSE IF namespaces[i].namespaceId = namespace_id THEN i
    ELSE FirstWithId(namespaces, namespace_id, i + 1)

\* Faulty variant of ScanListing: list_namespaces is called outside any try, so its
\* exception escapes.
ScanListingUnguarded(namespace_id, listing) ==
    IF ~listing.ok THEN Raise(EmptyDict)
    ELSE LET i == FirstWithId(listing.namespaces, namespace_id, 1)
         IN IF i = 0 THEN Return(EmptyDict)
                     ELSE Return(listing.namespaces[i])

\* The except branch of get_namespace_details: list_namespaces, scanned for
\* the identifier; its own except returns {}.
ScanListing(namespace_id, listing) ==
    IF ~listing.ok THEN Return(EmptyDict)
    ELSE LET i == FirstWithId(listing.namespaces, namespace_id, 1)
         IN IF i = 0 THEN Return(EmptyDict)
                     ELSE Return(listing.namespaces[i])

get_namespace_details(namespace_id, direct, listing) ==
    IF direct.ok THEN Return(direct.namespace)
                 ELSE ScanListing(namespace_id, listing)

InitNamespace ==
    /\ pc = "call"
    /\ ProbeIdle
    /\ call \in [namespace_id : NamespaceIds,
                 get_namespace : GetNamespaceResponses,
                 list_namespaces : ListNamespacesResponses]
    /\ ret = NoCall
    /\ CompareIdle

CallGetNamespaceDetails ==
    /\ pc = "call"
    /\ ret' = get_namespace_details(call.namespace_id, call.get_namespace,
                                    call.list_namespaces)
    /\ pc' = "returned"
    /\ UNCHANGED call
    /\ UNCHANGED <<probeVars, compareVars>>

NextNamespace ==
    CallGetNamespaceDetails

SpecNamespace == InitNamespace /\ [][NextNamespace]_vars

(***************************************************************************)
(* get_workgroups_for_namespace                                            *)
(***************************************************************************)
WorkgroupNames == {"wg-1", "wg-2", "wg-3"}

\* An entry of list_workgroups.
WorkgroupSummaries == [workgroupName : WorkgroupNames, namespaceName : NamespaceNames]

\* Longest list_workgroups page looked at.
MaxListedWorkgroups == 3

\* Workgroup names are unique within an account and region.
DistinctNames(listed) ==
    \A i, j \in 1..Len(listed) :
        listed[i].workgroupName = listed[j].workgroupName => i = j

\* Responses of list_workgroups: a page of workgroups, or an exception.
ListWorkgroupsResponses ==
    [ok : {TRUE},
     workgroups : {l \in SeqsUpTo(WorkgroupSummaries, MaxListedWorkgroups) :
                       DistinctNames(l)}]
        \cup {[ok |-> FALSE, workgroups |-> <<>>]}

\* detailed_wg['workgroup'] of get_workgroup(workgroupName=wg['workgroupName']).
Detailed(wg) ==
    [workgroupName |-> wg.workgroupName, namespaceName |-> wg.namespaceName,
     status |-> "AVAILABLE"]

\* Faulty variant of Matches: every listed workgroup is taken.
MatchesAny(wg, namespace_name) == TRUE

\* The filter of line 73.
Matches(wg, namespace_name) == wg.namespaceName = namespace_name

\* Faulty variant of CollectWorkgroups: when get_workgroup raises, the except
\* returns the workgroups collected so far.
RECURSIVE CollectWorkgroupsKeeping(_, _, _, _, _)
CollectWorkgroupsKeeping(namespace_name, listed, failing, i, workgroups) ==
    IF i > Len(listed) THEN Return(workgroups)
    ELSE IF Matches(listed[i], namespace_name)
         THEN IF listed[i].workgroupName \in failing
                THEN Return(workgroups)
                ELSE CollectWorkgroupsKeeping(namespace_name, listed, failing, i + 1,
                                              Append(workgroups, Detailed(listed[i])))
         ELSE CollectWorkgroupsKeeping(namespace_name, listed, failing, i + 1,
                                       workgroups)

\* The for loop of lines 72-78 from entry i on, with the workgroups collected
\* so far; get_workgroup raises for the names in `failing`, and the except of
\* line 81 returns [].
RECURSIVE CollectWorkgroups(_, _, _, _, _)
CollectWorkgroups(namespace_name, listed, failing, i, workgroups) ==
    IF i > Len(listed) THEN Return(workgroups)
    ELSE IF Matches(listed[i], namespace_name)
         THEN IF listed[i].workgroupName \in failing
                THEN Return(<<>>)
                ELSE CollectWorkgroups(namespace_name, listed, failing, i + 1,
                                       Append(workgroups, Detailed(listed[i])))
         ELSE CollectWorkgroups(namespace_name, listed, failing, i + 1, workgroups)

get_workgroups_for_namespace(namespace_name, listing, failing) ==
    IF ~listing.ok THEN Return(<<>>)
    ELSE CollectWorkgroups(namespace_name, listing.workgroups, failing, 1, <<>>)

InitWorkgroups ==
    /\ pc = "call"
    /\ ProbeIdle
    /\ call \in [namespace_name : NamespaceNames,
                 list_workgroups : ListWorkgroupsResponses,
                 get_workgroup_fails : SUBSET WorkgroupNames]
    /\ ret = NoCall
    /\ CompareIdle

CallGetWorkgroupsForNamespace ==
    /\ pc = "call"
    /\ ret' = get_workgroups_for_namespace(call.namespace_name, call.list_workgroups,
                                           call.get_workgroup_fails)
    /\ pc' = "returned"
    /\ UNCHANGED call
    /\ UNCHANGED <<probeVars, compareVars>>

NextWorkgroups ==
    CallGetWorkgroupsForNamespace

SpecWorkgroups == InitWorkgroups /\ [][NextWorkgroups]_vars

(***************************************************************************)
(* diagnose_namespace.  The methods it calls are modelled above (or, for   *)
(* the IAM and knowledge-base lookups, by their results); here each of     *)
(* them answers from `env`, the state of the account being diagnosed.      *)
(***************************************************************************)
\* Most workgroups a namespace has.
MaxWorkgroups == 2
\* Most Bedrock-related roles the account has.
MaxRoles == 2

WorkgroupName == <<"wg-1", "wg-2", "wg-3">>
RoleName == <<"AmazonBedrockExecutionRole", "knowledge-base-role", "BedrockKBRole">>

\* An ARN, split at '/'.
NamespaceArn(namespace_id) ==
    <<"arn:aws:redshift-serverless:us-west-2:533267284022:namespace", namespace_id>>
WorkgroupArn(workgroup_name) ==
    <<"arn:aws:redshift-serverless:us-west-2:533267284022:workgroup", workgroup_name>>

\* arn.split('/')[-1]
extract_namespace_id(arn) == arn[Len(arn)]

\* What get_namespace_details may return to diagnose_namespace.
NamespaceResults ==
    {EmptyDict} \cup
    [namespaceId : {"9e7060fb"}, namespaceName : {"ns-working"}, dbName : DbNames]

\* What get_workgroups_for_namespace may return.
WorkgroupResults ==
    {[i \in 1..k |-> Detailed([workgroupName |-> WorkgroupName[i],
                               namespaceName |-> "ns-working"])] :
        k \in 0..MaxWorkgroups}

Job(status) == [status |-> status]
KnowledgeBase(id, jobs) ==
    [knowledge_base_id |-> id, name |-> "sales-kb", status |-> "ACTIVE",
     data_sources_count |-> 1, recent_ingestion_jobs |-> jobs]

\* What get_knowledge_bases_using_workgroup may return for one workgroup.
KnowledgeBaseResults ==
    {<<>>,
     <<KnowledgeBase("KB1", <<Job("COMPLETE")>>)>>,
     <<KnowledgeBase("KB2", <<Job("COMPLETE"), Job("FAILED")>>)>>}

\* The account a namespace is diagnosed in: the result of the two lookups,
\* which workgroups answer queries, which databases the namespace holds and
\* how many tables their public schema has, how many roles have a Bedrock
\* name, which IAM listings succeed, and the knowledge bases of each workgroup.
EnvsOf(details, workgroups) ==
    [details : {details},
     workgroups : {workgroups},
     reachable : [1..Len(workgroups) -> BOOLEAN],
     databases : SUBSET {"dev", "prod"},
     tables : TableCounts,
     roles : 0..MaxRoles,
     iam_ok : [1..Len(workgroups) -> BOOLEAN],
     kbs : [1..Len(workgroups) -> KnowledgeBaseResults]]

DiagnoseEnvs ==
    UNION {EnvsOf(d, w) : d \in NamespaceResults, w \in WorkgroupResults}

\* The dict test_database_connectivity returns for workgroup i and a database.
ConnectivityOutcome(env, i, database_name) ==
    IF env.reachable[i] /\ database_name \in env.databases
      THEN [NewTestResults EXCEPT
                !.connectivity = TRUE,
                !.tables_count = env.tables,
                !.sample_tables = IF env.tables > 0 THEN <<"t1">> ELSE <<>>]
      ELSE [NewTestResults EXCEPT !.error = "database does not exist"]

\* The dict check_iam_permissions returns for workgroup i.
IamOutcome(env, i) ==
    IF env.iam_ok[i]
      THEN [bedrock_roles |-> [r \in 1..env.roles |-> [role_name |-> RoleName[r]]],
            potential_issues |-> <<>>]
      ELSE [bedrock_roles |-> <<>>,
            potential_issues |-> <<"IAM check failed: AccessDenied">>]

\* databases = ['dev', 'test', 'prod'], with dbName inserted at 0 when set.
Candidates(details) ==
    IF details.dbName # None
      THEN <<details.dbName>> \o <<"dev", "test", "prod">>
      ELSE <<"dev", "test", "prod">>

\* Faulty variant of TryDatabases: the loop has no break.
RECURSIVE TryDatabasesNoBreak(_, _, _, _)
TryDatabasesNoBreak(env, i, databases, j) ==
    IF j > Len(databases) THEN <<>>
    ELSE <<ConnectivityOutcome(env, i, databases[j])
              @@ [workgroup_name |-> env.workgroups[i].workgroupName,
                  database_name |-> databases[j]]>>
         \o TryDatabasesNoBreak(env, i, databases, j + 1)

\* The inner loop of lines 346-353 from candidate j on: the tests appended
\* for workgroup i.
RECURSIVE TryDatabases(_, _, _, _)
TryDatabases(env, i, databases, j) ==
    IF j > Len(databases) THEN <<>>
    ELSE LET connectivity_test ==
                 ConnectivityOutcome(env, i, databases[j])
                     @@ [workgroup_name |-> env.workgroups[i].workgroupName,
                         database_name |-> databases[j]]
         IN IF connectivity_test.connectivity
              THEN <<connectivity_test>>
              ELSE <<connectivity_test>> \o TryDatabases(env, i, databases, j + 1)

\* The loop of lines 338-353 from workgroup i on.
RECURSIVE TestWorkgroups(_, _)
TestWorkgroups(env, i) ==
    IF i > Len(env.workgroups) THEN <<>>
    ELSE TryDatabases(env, i, Candidates(env.details), 1)
             \o TestWorkgroups(env, i + 1)

\* The loop of lines 356-362 from workgroup i on: iam_permissions, keyed by
\* workgroup name, and knowledge_bases.
RECURSIVE CheckWorkgroups(_, _, _, _)
CheckWorkgroups(env, i, iam_permissions, knowledge_bases) ==
    IF i > Len(env.workgroups)
      THEN [iam_permissions |-> iam_permissions, knowledge_bases |-> knowledge_bases]
      ELSE CheckWorkgroups(env, i + 1,
               (env.workgroups[i].workgroupName :> IamOutcome(env, i)) @@ iam_permissions,
               knowledge_bases \o env.kbs[i])

(***************************************************************************)
(* _analyze_issues                                                         *)
(***************************************************************************)
Connects(test) == test.connectivity
HasTables(test) == test.tables_count > 0

\* Faulty variant of IsFailed: every job counts as failed.
IsFailedAlways(job) == TRUE

IsFailed(job) == job.status = "FAILED"

\* failed_jobs of lines 401-405, over the knowledge bases from i on.
RECURSIVE FailedJobs(_, _)
FailedJobs(knowledge_bases, i) ==
    IF i > Len(knowledge_bases) THEN <<>>
    ELSE SelectSeq(knowledge_bases[i].recent_ingestion_jobs, IsFailed)
             \o FailedJobs(knowledge_bases, i + 1)

FoundFailedJobs(n) == "Found " \o ToString(n) \o " failed ingestion jobs"

\* One rule of _analyze_issues: the issue and recommendation appended when
\* the rule's condition holds.
Rule(condition, issue, recommendation) ==
    IF condition THEN [issues |-> <<issue>>, recommendations |-> <<recommendation>>]
                 ELSE [issues |-> <<>>, recommendations |-> <<>>]

_analyze_issues(diagnosis) ==
    LET working_connections == SelectSeq(diagnosis.connectivity_tests, Connects)
        has_data == \E i \in 1..Len(working_connections) :
                        HasTables(working_connections[i])
        has_bedrock_roles ==
            \E w \in DOMAIN diagnosis.iam_permissions :
                Len(diagnosis.iam_permissions[w].bedrock_roles) > 0
        failed_jobs == FailedJobs(diagnosis.knowledge_bases, 1)
        connectivity ==
            Rule(working_connections = <<>>,
                 "No working database connections found",
                 "Check if workgroups are running and databases exist")
        data ==
            Rule(~has_data,
                 "No tables found in public schema",
                 "Ensure your data is loaded into the public schema")
        iam ==
            Rule(~has_bedrock_roles,
                 "No Bedrock-related IAM roles found",
                 "Create IAM roles for Bedrock Knowledge Base access")
        kbs ==
            IF diagnosis.knowledge_bases = <<>>
              THEN Rule(TRUE,
                        "No Knowledge Bases found using this workgroup",
                        "Verify Knowledge Base configuration points to correct workgroup")
              ELSE Rule(failed_jobs # <<>>,
                        FoundFailedJobs(Len(failed_jobs)),
                        "Check ingestion job failure reasons and fix underlying issues")
    IN [diagnosis EXCEPT
           !.issues_found = @ \o connectivity.issues \o data.issues
                              \o iam.issues \o kbs.issues,
           !.recommendations = @ \o connectivity.recommendations
                                 \o data.recommendations
                                 \o iam.recommendations \o kbs.recommendations]

(***************************************************************************)
(* diagnose_namespace                                                      *)
(***************************************************************************)
NewDiagnosis(namespace_arn) ==
    [namespace_arn |-> namespace_arn,
     namespace_id |-> extract_namespace_id(namespace_arn),
     namespace_details |-> EmptyDict,
     workgroups |-> <<>>,
     connectivity_tests |-> <<>>,
     iam_permissions |-> <<>>,
     knowledge_bases |-> <<>>,
     issues_found |-> <<>>,
     recommendations |-> <<>>]

\* The calls diagnose_namespace makes, in order, are kept with its result.
Called(method, workgroup, database) ==
    [method |-> method, workgroup |-> workgroup, database |-> database]

ProbeCalls(tests) ==
    [i \in 1..Len(tests) |->
        Called("test_database_connectivity", tests[i].workgroup_name,
               tests[i].database_name)]

RECURSIVE CheckCalls(_, _)
CheckCalls(workgroups, i) ==
    IF i > Len(workgroups) THEN <<>>
    ELSE <<Called("check_iam_permissions", workgroups[i].workgroupName, None),
           Called("get_knowledge_bases_using_workgroup",
                  workgroups[i].workgroupName, None)>>
         \o CheckCalls(workgroups, i + 1)

Diagnosed(diagnosis, made) ==
    [raised |-> FALSE, value |-> diagnosis, calls |-> made]

\* Faulty variant of NotFound: an unresolved namespace does not end the diagnosis.
NotFoundIgnored(details) == FALSE

\* `not diagnosis['namespace_details']`
NotFound(details) == details = EmptyDict

diagnose_namespace(namespace_arn, env) ==
    LET start == NewDiagnosis(namespace_arn)
        resolved == [start EXCEPT !.namespace_details = env.details]
        listed == [resolved EXCEPT !.workgroups = env.workgroups]
        tests == TestWorkgroups(env, 1)
        checks == CheckWorkgroups(env, 1, <<>>, <<>>)
        lookups == <<Called("get_namespace_details", None, None)>>
    IN IF NotFound(env.details)
         THEN Diagnosed(
                  [resolved EXCEPT
                      !.issues_found = Append(@, "Cannot retrieve namespace details")],
                  lookups)
       ELSE IF env.workgroups = <<>>
         THEN Diagnosed(
                  [listed EXCEPT
                      !.issues_found = Append(@, "No workgroups found for this namespace")],
                  lookups \o <<Called("get_workgroups_for_namespace", None, None)>>)
       ELSE Diagnosed(
                _analyze_issues(
                    [listed EXCEPT
                        !.connectivity_tests = tests,
                        !.iam_permissions = checks.iam_permissions,
                        !.knowledge_bases = checks.knowledge_bases]),
                lookups \o <<Called("get_workgroups_for_namespace", None, None)>>
                    \o ProbeCalls(tests) \o CheckCalls(env.workgroups, 1)
                    \o <<Called("_analyze_issues", None, None)>>)

InitDiagnose ==
    /\ pc = "call"
    /\ ProbeIdle
    /\ call \in [namespace_arn : {NamespaceArn("9e7060fb")}, env : DiagnoseEnvs]
    /\ ret = NoCall
    /\ CompareIdle

CallDiagnoseNamespace ==
    /\ pc = "call"
    /\ ret' = diagnose_namespace(call.namespace_arn, call.env)
    /\ pc' = "returned"
    /\ UNCHANGED call
    /\ UNCHANGED <<probeVars, compareVars>>

NextDiagnose ==
    CallDiagnoseNamespace

SpecDiagnose == InitDiagnose /\ [][NextDiagnose]_vars

(***************************************************************************)
(* compare_namespaces                                                      *)
(***************************************************************************)
\* any(test['connectivity'] for test in ...)
AnyConnects(tests) == \E i \in 1..Len(tests) : tests[i].connectivity

\* sum(test.get('tables_count', 0) for test in ...), from test i on.
RECURSIVE SumTables(_, _)
SumTables(tests, i) ==
    IF i > Len(tests) THEN 0
    ELSE tests[i].tables_count + SumTables(tests, i + 1)

\* sum(len(perms.get('bedrock_roles', [])) for perms in ....values())
RECURSIVE SumRoles(_, _)
SumRoles(iam_permissions, names) ==
    IF names = {} THEN 0
    ELSE LET w == CHOOSE n \in names : TRUE
         IN Len(iam_permissions[w].bedrock_roles)
                + SumRoles(iam_permissions, names \ {w})

TotalTables(diagnosis) == SumTables(diagnosis.connectivity_tests, 1)
TotalRoles(diagnosis) ==
    SumRoles(diagnosis.iam_permissions, DOMAIN diagnosis.iam_permissions)

\* Faulty variant of HasNone: the rule fires whenever the working count is greater.
HasNoneOrFewer(working_count, broken_count) == working_count > broken_count

\* `working > 0 and broken == 0` of lines 451 and 483.
HasNone(working_count, broken_count) == working_count > 0 /\ broken_count = 0

\* Faulty variant of Exceeds: the rule fires on equal counts too.
ExceedsOrEquals(working_count, broken_count) == working_count >= broken_count

\* `working_roles > broken_roles` of line 470.
Exceeds(working_count, broken_count) == working_count > broken_count

ConnectivityDifference ==
    "Working namespace has database connectivity, broken namespace does not"
TablesDifference(working_tables) ==
    "Working namespace has " \o ToString(working_tables)
        \o " tables, broken namespace has none"
RolesDifference(working_roles, broken_roles) ==
    "Working namespace has " \o ToString(working_roles)
        \o " Bedrock roles, broken has " \o ToString(broken_roles)
KnowledgeBasesDifference(working_kbs) ==
    "Working namespace has " \o ToString(working_kbs)
        \o " Knowledge Bases, broken has none"

\* The append pair every comparison rule ends with.
Differ(cmp, difference, recommendation) ==
    [cmp EXCEPT !.key_differences = Append(@, difference),
                !.recommendations = Append(@, recommendation)]

_compare_connectivity(working, broken, cmp) ==
    IF AnyConnects(working.connectivity_tests)
           /\ ~AnyConnects(broken.connectivity_tests)
      THEN Differ(cmp, ConnectivityDifference,
                  "Check if broken namespace workgroups are running and accessible")
      ELSE cmp

_compare_data_availability(working, broken, cmp) ==
    IF HasNone(TotalTables(working), TotalTables(broken))
      THEN Differ(cmp, TablesDifference(TotalTables(working)),
                  "Load data into the broken namespace's public schema")
      ELSE cmp

_compare_iam_setup(working, broken, cmp) ==
    IF Exceeds(TotalRoles(working), TotalRoles(broken))
      THEN Differ(cmp, RolesDifference(TotalRoles(working), TotalRoles(broken)),
                  "Ensure broken namespace has proper IAM roles for Bedrock access")
      ELSE cmp

_compare_knowledge_bases(working, broken, cmp) ==
    IF HasNone(Len(working.knowledge_bases), Len(broken.knowledge_bases))
      THEN Differ(cmp, KnowledgeBasesDifference(Len(working.knowledge_bases)),
                  "Create Knowledge Base configuration for broken namespace")
      ELSE cmp

\* The accounts compare_namespaces is run against: every workgroup answers
\* and can list roles, the workgroups have the same knowledge bases, the
\* namespace has no dbName and holds the database dev or none.
Uniform(env) ==
    /\ env.details \in {EmptyDict} \cup {d \in NamespaceResults : d.dbName = None}
    /\ Len(env.workgroups) \in {1, MaxWorkgroups}
    /\ env.roles \in {0, 1, MaxRoles}
    /\ \A i \in 1..Len(env.workgroups) :
           /\ env.reachable[i]
           /\ env.iam_ok[i]
           /\ env.kbs[i] = env.kbs[1]
    /\ env.databases \in {{}, {"dev"}}
    /\ env.tables \in {0, 1, MaxTables}
    /\ env.databases = {} => env.tables = 0

CompareEnvs == {env \in DiagnoseEnvs : Uniform(env)}

Init ==
    /\ pc = "diagnose_working"
    /\ ProbeIdle
    /\ call \in [working_arn : {NamespaceArn("9e7060fb")},
                 broken_arn : {NamespaceArn("6e551b08")},
                 working_env : CompareEnvs,
                 broken_env : CompareEnvs]
    /\ ret = NoCall
    /\ CompareIdle

\* working_diagnosis = self.diagnose_namespace(working_arn)
DiagnoseWorking ==
    /\ pc = "diagnose_working"
    /\ LET outcome == diagnose_namespace(call.working_arn, call.working_env)
       IN /\ working_diagnosis' = outcome.value
          /\ calls' = calls \o outcome.calls
          /\ pc' = IF outcome.raised THEN "raised" ELSE "diagnose_broken"
    /\ UNCHANGED <<broken_diagnosis, comparison>>
    /\ UNCHANGED <<probeVars, callVars>>

\* broken_diagnosis = self.diagnose_namespace(broken_arn), and the new
\* comparison dict.
DiagnoseBroken ==
    /\ pc = "diagnose_broken"
    /\ LET outcome == diagnose_namespace(call.broken_arn, call.broken_env)
       IN /\ broken_diagnosis' = outcome.value
          /\ calls' = calls \o outcome.calls
          /\ comparison' = [working_namespace |-> working_diagnosis,
                            broken_namespace |-> outcome.value,
                            key_differences |-> <<>>,
                            recommendations |-> <<>>]
          /\ pc' = IF outcome.raised THEN "raised" ELSE "compare_connectivity"
    /\ UNCHANGED working_diagnosis
    /\ UNCHANGED <<probeVars, callVars>>

CompareConnectivity ==
    /\ pc = "compare_connectivity"
    /\ comparison' = _compare_connectivity(working_diagnosis, broken_diagnosis,
                                           comparison)
    /\ pc' = "compare_data_availability"
    /\ UNCHANGED <<working_diagnosis, broken_diagnosis, calls>>
    /\ UNCHANGED <<probeVars, callVars>>

CompareDataAvailability ==
    /\ pc = "compare_data_availability"
    /\ comparison' = _compare_data_availability(working_diagnosis, broken_diagnosis,
                                                comparison)
    /\ pc' = "compare_iam_setup"
    /\ UNCHANGED <<working_diagnosis, broken_diagnosis, calls>>
    /\ UNCHANGED <<probeVars, callVars>>

CompareIamSetup ==
    /\ pc = "compare_iam_setup"
    /\ comparison' = _compare_iam_setup(working_diagnosis, broken_diagnosis,
                                        comparison)
    /\ pc' = "compare_knowledge_bases"
    /\ UNCHANGED <<working_diagnosis, broken_diagnosis, calls>>
    /\ UNCHANGED <<probeVars, callVars>>

\* The last rule; compare_namespaces returns the comparison.
CompareKnowledgeBases ==
    /\ pc = "compare_knowledge_bases"
    /\ comparison' = _compare_knowledge_bases(working_diagnosis, broken_diagnosis,
                                              comparison)
    /\ pc' = "returned"
    /\ UNCHANGED <<working_diagnosis, broken_diagnosis, calls>>
    /\ UNCHANGED <<probeVars, callVars>>

Next ==
    \/ DiagnoseWorking
    \/ DiagnoseBroken
    \/ CompareConnectivity
    \/ CompareDataAvailability
    \/ CompareIamSetup
    \/ CompareKnowledgeBases

Spec == Init /\ [][Next]_vars

(***************************************************************************)
(* check_iam_permissions and _get_role_policies.  A role name is the       *)
(* sequence of its characters, so that lower() and `in` are computed.      *)
(***************************************************************************)
UpperCase == <<"A", "B", "C", "D", "E", "F", "G", "H", "I", "J", "K", "L", "M">>
             \o <<"N", "O", "P", "Q", "R", "S", "T", "U", "V", "W", "X", "Y", "Z">>
LowerCase == <<"a", "b", "c", "d", "e", "f", "g", "h", "i", "j", "k", "l", "m">>
             \o <<"n", "o", "p", "q", "r", "s", "t", "u", "v", "w", "x", "y", "z">>

\* str.lower() of one character: an upper-case letter becomes its lower-case
\* letter, any other character is kept.
LowerChar(c) ==
    IF \E k \in 1..Len(UpperCase) : UpperCase[k] = c
      THEN LowerCase[CHOOSE k \in 1..Len(UpperCase) : UpperCase[k] = c]
      ELSE c

\* role_name.lower()
lower(role_name) == [k \in 1..Len(role_name) |-> LowerChar(role_name[k])]

\* `word in text` of two strings.
Contains(text, word) ==
    \E k \in 1..(Len(text) - Len(word) + 1) :
        SubSeq(text, k, k + Len(word) - 1) = word

\* The two words of the filter of line 197.
bedrock == <<"b", "e", "d", "r", "o", "c", "k">>
knowledge == <<"k", "n", "o", "w", "l", "e", "d", "g", "e">>

\* Faulty variant of IsBedrockRelated: the filter written as
\* `'bedrock' or 'knowledge' in role_name.lower()`, which is always truthy.
IsBedrockRelatedAlways(role_name) == TRUE

\* 'bedrock' in role_name.lower() or 'knowledge' in role_name.lower()
IsBedrockRelated(role_name) ==
    \/ Contains(lower(role_name), bedrock)
    \/ Contains(lower(role_name), knowledge)

\* Names of the roles of the account.
IamRoleNames ==
    {
     \* MyBedrockRole
     <<"M", "y", "B", "e", "d", "r", "o", "c", "k", "R", "o", "l", "e">>,
     \* KNOWLEDGE
     <<"K", "N", "O", "W", "L", "E", "D", "G", "E">>,
     \* Admin
     <<"A", "d", "m", "i", "n">>,
     \* bedroc-knowledg
     <<"b", "e", "d", "r", "o", "c", "-", "k", "n", "o", "w", "l", "e", "d", "g">>
    }

RoleArn(role_name) == <<"arn:aws:iam::533267284022:role", role_name>>

\* An entry of page['Roles'].
IamRoles == {[RoleName |-> n, Arn |-> RoleArn(n)] : n \in IamRoleNames}

\* Most roles of a list_roles page, and most pages of the listing.
MaxPageRoles == 1
MaxPages == 2

\* The pages paginate() delivers before the listing ends or raises.
RolePages == SeqsUpTo(SeqsUpTo(IamRoles, MaxPageRoles), MaxPages)

\* How the two policy listings of _get_role_policies answer.
PolicyAnswers == {"ok", "list_attached_role_policies raises",
                  "list_role_policies raises"}

\* _get_role_policies: the policy names listed before an exception, if any,
\* ends the try; the two access flags are never set.
_get_role_policies(role_name, workgroup_arn, answer) ==
    [attached_policies |->
         IF answer = "list_attached_role_policies raises"
           THEN <<>> ELSE <<"AmazonBedrockFullAccess">>,
     inline_policies |->
         IF answer = "ok" THEN <<"redshift-data-access">> ELSE <<>>,
     has_redshift_access |-> FALSE,
     has_workgroup_access |-> FALSE]

\* The inner for loop of lines 193-202 over one page, from role i on.
RECURSIVE ScanRoles(_, _, _, _)
ScanRoles(roles, i, workgroup_arn, answer) ==
    IF i > Len(roles) THEN <<>>
    ELSE LET role_name == roles[i].RoleName
             rest == ScanRoles(roles, i + 1, workgroup_arn, answer)
         IN IF IsBedrockRelated(role_name)
              THEN <<[role_name |-> role_name,
                      role_arn |-> roles[i].Arn,
                      policies |-> _get_role_policies(role_name, workgroup_arn,
                                                      answer)]>> \o rest
              ELSE rest

\* The outer for loop of line 192 over the delivered pages, from page p on.
RECURSIVE ScanPages(_, _, _, _)
ScanPages(pages, p, workgroup_arn, answer) ==
    IF p > Len(pages) THEN <<>>
    ELSE ScanRoles(pages[p], 1, workgroup_arn, answer)
             \o ScanPages(pages, p + 1, workgroup_arn, answer)

\* check_iam_permissions: the roles kept from the delivered pages; when the
\* listing raises, the except of line 204 adds one potential issue.
check_iam_permissions(workgroup_arn, pages, raises, answer) ==
    Return([bedrock_roles |-> ScanPages(pages, 1, workgroup_arn, answer),
            potential_issues |->
                IF raises THEN <<"IAM check failed: AccessDenied">> ELSE <<>>])

InitIam ==
    /\ pc = "call"
    /\ ProbeIdle
    /\ call \in [workgroup_arn : {WorkgroupArn(WorkgroupName[1])},
                 pages : RolePages,
                 paginate_raises : BOOLEAN,
                 policies : PolicyAnswers]
    /\ ret = NoCall
    /\ CompareIdle

CallCheckIamPermissions ==
    /\ pc = "call"
    /\ ret' = check_iam_permissions(call.workgroup_arn, call.pages,
                                    call.paginate_raises, call.policies)
    /\ pc' = "returned"
    /\ UNCHANGED call
    /\ UNCHANGED <<probeVars, compareVars>>

NextIam ==
    CallCheckIamPermissions

SpecIam == InitIam /\ [][NextIam]_vars

(***************************************************************************)
(* get_knowledge_bases_using_workgroup and _kb_uses_workgroup              *)
(***************************************************************************)
KnowledgeBaseId == <<"KB-1", "KB-2", "KB-3">>

\* Most knowledge bases list_knowledge_bases gives, and most data sources
\* list_data_sources gives for one of them.
MaxListedKnowledgeBases == 2
MaxDataSources == 1

\* A key holding an ARN is absent.
NoArn == <<>>

\* The workgroups a knowledge base may name.
KbArns == {WorkgroupArn(WorkgroupName[1]), WorkgroupArn(WorkgroupName[2])}

\* kb_detail['knowledgeBase']: a SQL knowledge base over a serverless or a
\* provisioned query engine, or a vector knowledge base with its storage.
KbConfigs ==
    [name : {"sales-kb"}, status : {"ACTIVE"}, type : {"SQL"},
     engine : {"SERVERLESS"}, workgroupArn : KbArns,
     storage : {None}, resourceArn : {NoArn}]
    \cup
    [name : {"sales-kb"}, status : {"ACTIVE"}, type : {"SQL"},
     engine : {"PROVISIONED"}, workgroupArn : {NoArn},
     storage : {None}, resourceArn : {NoArn}]
    \cup
    [name : {"sales-kb"}, status : {"ACTIVE"}, type : {"VECTOR"},
     engine : {None}, workgroupArn : {NoArn},
     storage : {"RDS"}, resourceArn : KbArns]
    \cup
    [name : {"sales-kb"}, status : {"ACTIVE"}, type : {"VECTOR"},
     engine : {None}, workgroupArn : {NoArn},
     storage : {"OPENSEARCH_SERVERLESS"}, resourceArn : {NoArn}]

\* _kb_uses_workgroup: the serverless SQL configuration decides when there
\* is one, the RDS storage configuration otherwise.
_kb_uses_workgroup(kb_config, workgroup_arn) ==
    IF kb_config.type = "SQL" /\ kb_config.engine = "SERVERLESS"
      THEN kb_config.workgroupArn = workgroup_arn
      ELSE IF kb_config.storage = "RDS"
             THEN kb_config.resourceArn = workgroup_arn
             ELSE FALSE

\* Responses of get_knowledge_base: the configuration, or an exception.
GetKnowledgeBaseResponses ==
    [ok : {TRUE}, knowledgeBase : KbConfigs]
        \cup {[ok |-> FALSE, knowledgeBase |-> <<>>]}

\* Responses of list_ingestion_jobs for one data source.
ListIngestionJobsResponses ==
    [ok : {TRUE}, ingestionJobSummaries : {<<>>, <<Job("FAILED")>>}]
        \cup {[ok |-> FALSE, ingestionJobSummaries |-> <<>>]}

\* Responses of list_data_sources: the data sources, each with the answer
\* list_ingestion_jobs gives for it, or an exception.
NoDataSources == [ok |-> TRUE, dataSourceSummaries |-> <<>>]

ListDataSourcesResponses ==
    [ok : {TRUE},
     dataSourceSummaries : SeqsUpTo(ListIngestionJobsResponses, MaxDataSources)]
        \cup {[ok |-> FALSE, dataSourceSummaries |-> <<>>]}

\* How the API answers for one listed knowledge base.  list_data_sources is
\* called only for a knowledge base that uses the workgroup.
KnowledgeBaseAnswers(workgroup_arn) ==
    {kb \in [get_knowledge_base : GetKnowledgeBaseResponses,
             list_data_sources : ListDataSourcesResponses] :
        (~kb.get_knowledge_base.ok
            \/ ~_kb_uses_workgroup(kb.get_knowledge_base.knowledgeBase,
                                   workgroup_arn))
            => kb.list_data_sources = NoDataSources}

\* Responses of list_knowledge_bases: the summaries, each with the answers
\* the later calls give for it, or an exception.
ListKnowledgeBasesResponses(workgroup_arn) ==
    [ok : {TRUE},
     knowledgeBaseSummaries :
         SeqsUpTo(KnowledgeBaseAnswers(workgroup_arn), MaxListedKnowledgeBases)]
        \cup {[ok |-> FALSE, knowledgeBaseSummaries |-> <<>>]}

\* The for loop of lines 256-263 from data source d on: the jobs gathered,
\* or the exception of a list_ingestion_jobs call.
RECURSIVE GatherJobs(_, _, _)
GatherJobs(data_sources, d, ingestion_jobs) ==
    IF d > Len(data_sources) THEN Return(ingestion_jobs)
    ELSE IF ~data_sources[d].ok THEN Raise(ingestion_jobs)
    ELSE GatherJobs(data_sources, d + 1,
                    ingestion_jobs \o data_sources[d].ingestionJobSummaries)

\* The dict appended at lines 265-271.
KnowledgeBaseEntry(kb_id, kb_config, data_sources, ingestion_jobs) ==
    [knowledge_base_id |-> kb_id,
     name |-> kb_config.name,
     status |-> kb_config.status,
     data_sources_count |-> Len(data_sources),
     recent_ingestion_jobs |-> ingestion_jobs]

\* Faulty variant of ExceptKnowledgeBases: the except returns [].
ExceptKnowledgeBasesEmpty(knowledge_bases) == Return(<<>>)

\* The except of lines 273-276: the exception is logged and the function
\* returns knowledge_bases as it stands.
ExceptKnowledgeBases(knowledge_bases) == Return(knowledge_bases)

\* The for loop of lines 242-271 from summary i on.
RECURSIVE ScanKnowledgeBases(_, _, _, _)
ScanKnowledgeBases(listed, i, workgroup_arn, knowledge_bases) ==
    IF i > Len(listed) THEN Return(knowledge_bases)
    ELSE IF ~listed[i].get_knowledge_base.ok
           THEN ExceptKnowledgeBases(knowledge_bases)
    ELSE LET kb_config == listed[i].get_knowledge_base.knowledgeBase
             data_sources == listed[i].list_data_sources
             jobs == GatherJobs(data_sources.dataSourceSummaries, 1, <<>>)
         IN IF ~_kb_uses_workgroup(kb_config, workgroup_arn)
              THEN ScanKnowledgeBases(listed, i + 1, workgroup_arn, knowledge_bases)
            ELSE IF ~data_sources.ok \/ jobs.raised
              THEN ExceptKnowledgeBases(knowledge_bases)
            ELSE ScanKnowledgeBases(listed, i + 1, workgroup_arn,
                     Append(knowledge_bases,
                            KnowledgeBaseEntry(KnowledgeBaseId[i], kb_config,
                                               data_sources.dataSourceSummaries,
                                               jobs.value)))

get_knowledge_bases_using_workgroup(workgroup_arn, listing) ==
    IF ~listing.ok THEN ExceptKnowledgeBases(<<>>)
    ELSE ScanKnowledgeBases(listing.knowledgeBaseSummaries, 1, workgroup_arn, <<>>)

InitKnowledgeBases ==
    /\ pc = "call"
    /\ ProbeIdle
    /\ \E workgroup_arn \in {WorkgroupArn(WorkgroupName[1])} :
         call \in [workgroup_arn : {workgroup_arn},
                   list_knowledge_bases : ListKnowledgeBasesResponses(workgroup_arn)]
    /\ ret = NoCall
    /\ CompareIdle

CallGetKnowledgeBasesUsingWorkgroup ==
    /\ pc = "call"
    /\ ret' = get_knowledge_bases_using_workgroup(call.workgroup_arn,
                                                  call.list_knowledge_bases)
    /\ pc' = "returned"
    /\ UNCHANGED call
    /\ UNCHANGED <<probeVars, compareVars>>

NextKnowledgeBases ==
    CallGetKnowledgeBasesUsingWorkgroup

SpecKnowledgeBases == InitKnowledgeBases /\ [][NextKnowledgeBases]_vars

(***************************************************************************)
(* The entry points: main of diagnose_redshift_kb_issues.py and main of    *)
(* run_diagnosis.py.  `call` scripts what the calls of main answer, `ret`  *)
(* is the process: what it logged and printed, the files it wrote, whether *)
(* an exception left main, and its exit status once it has exited.         *)
(***************************************************************************)
EntryPoints == {"diagnose_redshift_kb_issues.py", "run_diagnosis.py"}

\* str(e) of an exception that reaches main.
MainExceptionTexts == {"'workgroupName'", "An error occurred (ExpiredToken)"}

\* The comparisons compare_namespaces may hand to main.
MainComparisons ==
    {[working_namespace |-> [issues_found |-> <<>>],
      broken_namespace |-> [issues_found |-> <<"Cannot retrieve namespace details">>],
      key_differences |-> d,
      recommendations |-> d] :
        d \in {<<>>, <<"Working namespace has database connectivity, broken namespace does not">>}}

\* How the `with open(filename, 'w') as f: f.write(report)` block ends.
SaveAnswers == {"ok", "open raises", "write raises"}

\* The exit status is not set while the process runs.
Running == -1

NewProcess ==
    [logged |-> <<>>, printed |-> <<>>, json |-> <<>>, files |-> <<>>,
     raised |-> FALSE, exit |-> Running]

InitMain ==
    /\ pc = "construct"
    /\ ProbeIdle
    /\ call \in [entry_point : EntryPoints,
                 construct : {Return("diagnostic")}
                                 \cup {Raise(t) : t \in MainExceptionTexts},
                 compare_namespaces : {Return(c) : c \in MainComparisons}
                                          \cup {Raise(t) : t \in MainExceptionTexts},
                 generate_report : {Return("report")}
                                       \cup {Raise(t) : t \in MainExceptionTexts},
                 save : SaveAnswers]
    /\ ret = NewProcess
    /\ CompareIdle

\* diagnostic = RedshiftKBDiagnostic(), before the try of either main: an
\* exception of the constructor leaves main.
Construct ==
    /\ pc = "construct"
    /\ IF call.construct.raised
         THEN /\ ret' = [ret EXCEPT !.raised = TRUE]
              /\ pc' = "exit"
         ELSE /\ ret' = ret
              /\ pc' = "compare"
    /\ UNCHANGED call
    /\ UNCHANGED <<probeVars, compareVars>>

\* comparison = diagnostic.compare_namespaces(...), the first call of the try.
CallCompareNamespaces ==
    /\ pc = "compare"
    /\ pc' = IF call.compare_namespaces.raised THEN "except" ELSE "report"
    /\ ret' = IF call.entry_point = "run_diagnosis.py" THEN ret
              ELSE [ret EXCEPT !.logged =
                        Append(@, "Starting diagnostic comparison...")]
    /\ UNCHANGED call
    /\ UNCHANGED <<probeVars, compareVars>>

\* report = diagnostic.generate_report(comparison); print(report)
CallGenerateReport ==
    /\ pc = "report"
    /\ IF call.generate_report.raised
         THEN /\ pc' = "except"
              /\ ret' = ret
         ELSE /\ pc' = "save"
              /\ ret' = [ret EXCEPT !.printed =
                             Append(@, call.generate_report.value)]
    /\ UNCHANGED call
    /\ UNCHANGED <<probeVars, compareVars>>

\* The report is saved: open creates the file, write fills it.
SaveReport ==
    /\ pc = "save"
    /\ \/ /\ call.save = "ok"
          /\ IF call.entry_point = "run_diagnosis.py"
               THEN /\ ret' = [ret EXCEPT
                                 !.files = Append(@, call.generate_report.value),
                                 !.printed = Append(@, "Report saved to: ")]
                    /\ pc' = "exit"
               ELSE /\ ret' = [ret EXCEPT
                                 !.files = Append(@, call.generate_report.value),
                                 !.logged = Append(@, "Report saved to: ")]
                    /\ pc' = "json"
       \/ /\ call.save = "open raises"
          /\ ret' = ret
          /\ pc' = "except"
       \/ /\ call.save = "write raises"
          /\ ret' = [ret EXCEPT !.files = Append(@, "")]
          /\ pc' = "except"
    /\ UNCHANGED call
    /\ UNCHANGED <<probeVars, compareVars>>

\* diagnose_redshift_kb_issues.py prints the JSON projection of the comparison.
PrintJson ==
    /\ pc = "json"
    /\ ret' = [ret EXCEPT !.json =
                   Append(@, [working_issues |->
                                  call.compare_namespaces.value.working_namespace.issues_found,
                              broken_issues |->
                                  call.compare_namespaces.value.broken_namespace.issues_found,
                              key_differences |->
                                  call.compare_namespaces.value.key_differences,
                              recommendations |->
                                  call.compare_namespaces.value.recommendations])]
    /\ pc' = "exit"
    /\ UNCHANGED call
    /\ UNCHANGED <<probeVars, compareVars>>

\* The except of diagnose_redshift_kb_issues.py (lines 603-605):
\* logger.error, then raise.
ExceptDiagnose ==
    /\ pc = "except"
    /\ call.entry_point = "diagnose_redshift_kb_issues.py"
    /\ ret' = [ret EXCEPT !.logged = Append(@, "Diagnostic failed"),
                          !.raised = TRUE]
    /\ pc' = "exit"
    /\ UNCHANGED call
    /\ UNCHANGED <<probeVars, compareVars>>

\* The except of run_diagnosis.py (lines 41-44): print and
\* traceback.print_exc(); main then returns.
ExceptRunner ==
    /\ pc = "except"
    /\ call.entry_point = "run_diagnosis.py"
    /\ ret' = [ret EXCEPT !.printed = Append(@, "Diagnostic failed")]
    /\ pc' = "exit"
    /\ UNCHANGED call
    /\ UNCHANGED <<probeVars, compareVars>>

\* The interpreter ends: status 1 when an exception left main, 0 otherwise.
Exit ==
    /\ pc = "exit"
    /\ ret' = [ret EXCEPT !.exit = IF ret.raised THEN 1 ELSE 0]
    /\ pc' = "exited"
    /\ UNCHANGED call
    /\ UNCHANGED <<probeVars, compareVars>>

NextMain ==
    \/ Construct
    \/ CallCompareNamespaces
    \/ CallGenerateReport
    \/ SaveReport
    \/ PrintJson
    \/ ExceptDiagnose
    \/ ExceptRunner
    \/ Exit

SpecMain == InitMain /\ [][NextMain]_vars

(***************************************************************************)
(* Claims about test_database_connectivity                                 *)
(***************************************************************************)
Returned == pc = "returned"

C4_TimeoutSetsError ==
    (Returned /\ \E s \in Stages : seen[s] = "timeout")
        => (~escaped /\ test_results.error # None)

\* C5: every stage polls at most max_wait times and sleeps at most max_wait
\* times, there are at most three stages, and the call returns.
C5_BoundedPolling ==
    /\ [](polls <= max_wait /\ sleeps <= max_wait /\ stage \in Stages)
    /\ <>Returned

\* C5 witness: the third stage used up all its polls and sleeps.
C5_Witness ==
    /\ Returned
    /\ stage = 3
    /\ seen[3] = "timeout"
    /\ polls = max_wait
    /\ sleeps = max_wait

(***************************************************************************)
(* Claims about get_namespace_details                                      *)
(***************************************************************************)
ListingHasId ==
    \E i \in 1..Len(call.list_namespaces.namespaces) :
        call.list_namespaces.namespaces[i].namespaceId = call.namespace_id

\* C9: get_namespace_details never raises, and returns a non-empty result
\* exactly when the direct lookup succeeds, or it fails and the listing call
\* succeeds and holds a namespace whose namespaceId is the identifier.
C9_ResolvedIffFound ==
    Returned =>
        /\ ~ret.raised
        /\ ret.value # EmptyDict
             <=> \/ call.get_namespace.ok
                 \/ /\ ~call.get_namespace.ok
                    /\ call.list_namespaces.ok
                    /\ ListingHasId

\* C9 witness: the direct lookup failed and the namespace was found as the
\* second entry of the listing.
C9_Witness ==
    /\ Returned
    /\ ~call.get_namespace.ok
    /\ call.list_namespaces.ok
    /\ Len(call.list_namespaces.namespaces) = 2
    /\ call.list_namespaces.namespaces[1].namespaceId # call.namespace_id
    /\ ret = Return(call.list_namespaces.namespaces[2])

(***************************************************************************)
(* Claims about get_workgroups_for_namespace                               *)
(***************************************************************************)
ListedHere(wg) == wg.namespaceName = call.namespace_name

MatchingListed == SelectSeq(call.list_workgroups.workgroups, ListedHere)

NoWorkgroupCallFails ==
    /\ call.list_workgroups.ok
    /\ \A i \in 1..Len(MatchingListed) :
           MatchingListed[i].workgroupName \notin call.get_workgroup_fails

\* C10: every returned workgroup is one the listing gives the namespace name
\* asked for, and when no API call fails there is one entry for each such
\* workgroup, in listing order.
C10_OnlyMatchingWorkgroups ==
    Returned =>
        /\ ~ret.raised
        /\ \A i \in 1..Len(ret.value) :
               \E j \in 1..Len(call.list_workgroups.workgroups) :
                   /\ call.list_workgroups.workgroups[j].workgroupName
                          = ret.value[i].workgroupName
                   /\ call.list_workgroups.workgroups[j].namespaceName
                          = call.namespace_name
        /\ NoWorkgroupCallFails =>
               /\ Len(ret.value) = Len(MatchingListed)
               /\ \A i \in 1..Len(MatchingListed) :
                      ret.value[i].workgroupName = MatchingListed[i].workgroupName

\* C10 witness: of three listed workgroups the first and the third belong to
\* the namespace, and both are returned in that order.
C10_Witness ==
    /\ Returned
    /\ Len(call.list_workgroups.workgroups) = 3
    /\ call.list_workgroups.workgroups[2].namespaceName # call.namespace_name
    /\ Len(ret.value) = 2
    /\ ret.value[1].workgroupName = call.list_workgroups.workgroups[1].workgroupName
    /\ ret.value[2].workgroupName = call.list_workgroups.workgroups[3].workgroupName

(***************************************************************************)
(* Claims about diagnose_namespace and _analyze_issues                     *)
(***************************************************************************)
Has(list, entry) == \E i \in 1..Len(list) : list[i] = entry

\* diagnose_namespace ran to its end: the namespace resolved and has workgroups.
FullDiagnosis ==
    /\ Returned
    /\ call.env.details # EmptyDict
    /\ call.env.workgroups # <<>>

FailedJobCount(diagnosis) ==
    Cardinality(UNION {
        {<<k, j>> : j \in {j \in 1..Len(diagnosis.knowledge_bases[k].recent_ingestion_jobs) :
            diagnosis.knowledge_bases[k].recent_ingestion_jobs[j].status = "FAILED"}} :
        k \in 1..Len(diagnosis.knowledge_bases)})

\* C6: after a full diagnosis, issues_found holds each rule's issue exactly
\* when the rule's condition holds of the facts the diagnosis collected, and
\* the failed-jobs issue names the exact number of FAILED jobs.
C6_IssuesMatchRules ==
    FullDiagnosis =>
        LET d == ret.value
            tests == d.connectivity_tests
        IN /\ Has(d.issues_found, "No working database connections found")
                <=> ~\E i \in 1..Len(tests) : tests[i].connectivity
           /\ Has(d.issues_found, "No tables found in public schema")
                <=> ~\E i \in 1..Len(tests) :
                        tests[i].connectivity /\ tests[i].tables_count > 0
           /\ Has(d.issues_found, "No Bedrock-related IAM roles found")
                <=> ~\E w \in DOMAIN d.iam_permissions :
                        d.iam_permissions[w].bedrock_roles # <<>>
           /\ Has(d.issues_found, "No Knowledge Bases found using this workgroup")
                <=> d.knowledge_bases = <<>>
           /\ \A n \in 0..10 :
                  Has(d.issues_found, FoundFailedJobs(n))
                    <=> /\ d.knowledge_bases # <<>>
                        /\ n >= 1
                        /\ n = FailedJobCount(d)

\* C6 witness: two knowledge bases with one FAILED job each, a working
\* connection with tables and a Bedrock role: the only issue is the count.
C6_Witness ==
    /\ FullDiagnosis
    /\ Len(ret.value.knowledge_bases) = 2
    /\ ret.value.issues_found = <<"Found 2 failed ingestion jobs">>

\* C8: the tests of every workgroup are the candidate database names in
\* priority order, cut after the first that connects; tests follow the order
\* of the workgroups, and no test of a workgroup follows a successful test of
\* the same workgroup.
C8_ProbesStopAtFirstConnect ==
    FullDiagnosis =>
        LET d == ret.value
            tests == d.connectivity_tests
            dbName == d.namespace_details.dbName
            candidates == IF dbName # None
                            THEN <<dbName, "dev", "test", "prod">>
                            ELSE <<"dev", "test", "prod">>
        IN /\ \A i \in 1..Len(d.workgroups) :
                  LET OfWorkgroup(t) == t.workgroup_name = d.workgroups[i].workgroupName
                      own == SelectSeq(tests, OfWorkgroup)
                  IN /\ Len(own) \in 1..Len(candidates)
                     /\ Len(own) <= 4
                     /\ \A j \in 1..Len(own) : own[j].database_name = candidates[j]
                     /\ \A j \in 1..(Len(own) - 1) : ~own[j].connectivity
                     /\ ~own[Len(own)].connectivity => Len(own) = Len(candidates)
           /\ \A a, b \in 1..Len(tests) :
                  a < b =>
                      /\ tests[a].connectivity
                             => tests[a].workgroup_name # tests[b].workgroup_name
                      /\ \E i, j \in 1..Len(d.workgroups) :
                             /\ i <= j
                             /\ d.workgroups[i].workgroupName = tests[a].workgroup_name
                             /\ d.workgroups[j].workgroupName = tests[b].workgroup_name
           /\ SubSeq(ret.calls, 3, Len(tests) + 2)
                  = [k \in 1..Len(tests) |->
                        Called("test_database_connectivity",
                               tests[k].workgroup_name, tests[k].database_name)]

\* C8 witness: the first workgroup fails on dbName and connects on dev, though
\* prod would connect too; the second workgroup fails on all four candidates.
C8_Witness ==
    /\ FullDiagnosis
    /\ call.env.databases = {"dev", "prod"}
    /\ Len(ret.value.connectivity_tests) = 6
    /\ ret.value.connectivity_tests[2].connectivity
    /\ ret.value.connectivity_tests[2].database_name = "dev"
    /\ ret.value.connectivity_tests[6].database_name = "prod"
    /\ ~ret.value.connectivity_tests[6].connectivity

(***************************************************************************)
(* Claims about compare_namespaces                                         *)
(***************************************************************************)
Unresolved(diagnosis) ==
    /\ diagnosis.issues_found = <<"Cannot retrieve namespace details">>
    /\ diagnosis.namespace_details = EmptyDict
    /\ diagnosis.workgroups = <<>>
    /\ diagnosis.connectivity_tests = <<>>
    /\ diagnosis.iam_permissions = <<>>
    /\ diagnosis.knowledge_bases = <<>>
    /\ diagnosis.recommendations = <<>>

\* The scenario of C1: A resolved, has one workgroup, connected on the first
\* attempt with 3 tables, has no matching role and one knowledge base without
\* FAILED jobs; B did not resolve.
C1_Scenario ==
    /\ Returned
    /\ working_diagnosis.namespace_details # EmptyDict
    /\ Len(working_diagnosis.workgroups) = 1
    /\ Len(working_diagnosis.connectivity_tests) = 1
    /\ working_diagnosis.connectivity_tests[1].connectivity
    /\ working_diagnosis.connectivity_tests[1].tables_count = 3
    /\ \A w \in DOMAIN working_diagnosis.iam_permissions :
           working_diagnosis.iam_permissions[w].bedrock_roles = <<>>
    /\ Len(working_diagnosis.knowledge_bases) = 1
    /\ FailedJobCount(working_diagnosis) = 0
    /\ call.broken_env.details = EmptyDict

\* C1 as stated: in the scenario B's only issue is the unresolved namespace
\* and key_differences is empty.
C1_NoDifferences ==
    C1_Scenario =>
        /\ broken_diagnosis.issues_found = <<"Cannot retrieve namespace details">>
        /\ comparison.key_differences = <<>>

\* C1 amended: in the scenario B's only issue is the unresolved namespace and
\* key_differences holds the connectivity, the table and the knowledge-base
\* difference, in that order, and no role difference.
C1_ThreeDifferences ==
    C1_Scenario =>
        /\ broken_diagnosis.issues_found = <<"Cannot retrieve namespace details">>
        /\ comparison.key_differences
             = <<"Working namespace has database connectivity, broken namespace does not",
                 "Working namespace has 3 tables, broken namespace has none",
                 "Working namespace has 1 Knowledge Bases, broken has none">>

\* C1 witness: the scenario, compared.
C1_Witness ==
    /\ C1_Scenario
    /\ Len(comparison.key_differences) = 3
    /\ Len(comparison.recommendations) = 3

RolesOf(diagnosis) ==
    Cardinality({<<w, r>> \in (DOMAIN diagnosis.iam_permissions) \X (1..(MaxRoles + 1)) :
        r <= Len(diagnosis.iam_permissions[w].bedrock_roles)})

ConnectsAt(diagnosis) ==
    \E i \in 1..Len(diagnosis.connectivity_tests) :
        diagnosis.connectivity_tests[i].connectivity

\* C2 as stated: each of the four rules appends its difference exactly when
\* the working namespace's metric is strictly greater than the broken one's.
C2_StrictlyGreater ==
    Returned =>
        LET w == working_diagnosis
            b == broken_diagnosis
            diffs == comparison.key_differences
        IN /\ Has(diffs, ConnectivityDifference)
                <=> (ConnectsAt(w) /\ ~ConnectsAt(b))
           /\ Has(diffs, TablesDifference(TotalTables(w)))
                <=> TotalTables(w) > TotalTables(b)
           /\ Has(diffs, RolesDifference(RolesOf(w), RolesOf(b)))
                <=> RolesOf(w) > RolesOf(b)
           /\ Has(diffs, KnowledgeBasesDifference(Len(w.knowledge_bases)))
                <=> Len(w.knowledge_bases) > Len(b.knowledge_bases)

\* C2 amended: the connectivity and the role rule append their difference
\* exactly when the working metric is strictly greater; the table and the
\* knowledge-base rule append theirs exactly when the working count is
\* positive and the broken count is zero.
C2_GreaterOrNone ==
    Returned =>
        LET w == working_diagnosis
            b == broken_diagnosis
            diffs == comparison.key_differences
        IN /\ Has(diffs, ConnectivityDifference)
                <=> (ConnectsAt(w) /\ ~ConnectsAt(b))
           /\ Has(diffs, TablesDifference(TotalTables(w)))
                <=> (TotalTables(w) > 0 /\ TotalTables(b) = 0)
           /\ Has(diffs, RolesDifference(RolesOf(w), RolesOf(b)))
                <=> RolesOf(w) > RolesOf(b)
           /\ Has(diffs, KnowledgeBasesDifference(Len(w.knowledge_bases)))
                <=> (Len(w.knowledge_bases) > 0 /\ Len(b.knowledge_bases) = 0)
           /\ Len(diffs) = Len(comparison.recommendations)
           /\ Len(diffs) <= 4

\* C2 witness: the working namespace has more tables and more knowledge bases
\* than the broken one, which has some of each: no difference is reported.
C2_Witness ==
    /\ Returned
    /\ TotalTables(working_diagnosis) > TotalTables(broken_diagnosis)
    /\ TotalTables(broken_diagnosis) > 0
    /\ Len(working_diagnosis.knowledge_bases) > Len(broken_diagnosis.knowledge_bases)
    /\ Len(broken_diagnosis.knowledge_bases) > 0
    /\ comparison.key_differences = <<>>

WorkingDiagnosed == pc \notin {"diagnose_working", "raised"}
BrokenDiagnosed == pc \notin {"diagnose_working", "diagnose_broken", "raised"}
LookupCall == Called("get_namespace_details", None, None)

\* C7: a namespace that does not resolve gets exactly one issue and none of
\* the later steps, its diagnosis is otherwise empty, nothing is raised, and
\* compare_namespaces goes on: after an unresolved working namespace the next
\* call is the lookup of the broken one.
C7_UnresolvedAborts ==
    /\ pc # "raised"
    /\ (WorkingDiagnosed /\ call.working_env.details = EmptyDict) =>
           /\ Unresolved(working_diagnosis)
           /\ calls[1] = LookupCall
           /\ Len(calls) > 1 => calls[2] = LookupCall
           /\ pc = "diagnose_broken" => Len(calls) = 1
           /\ BrokenDiagnosed => Len(calls) > 1
    /\ (BrokenDiagnosed /\ call.broken_env.details = EmptyDict) =>
           /\ Unresolved(broken_diagnosis)
           /\ calls[Len(calls)] = LookupCall
           /\ comparison.broken_namespace = broken_diagnosis

\* C7 witness: the working namespace did not resolve and the broken one was
\* diagnosed in full afterwards.
C7_Witness ==
    /\ Returned
    /\ call.working_env.details = EmptyDict
    /\ Unresolved(working_diagnosis)
    /\ broken_diagnosis.connectivity_tests # <<>>
    /\ calls[Len(calls)] = Called("_analyze_issues", None, None)

(***************************************************************************)
(* Claims about the failures of get_workgroups_for_namespace               *)
(***************************************************************************)
\* An API call of get_workgroups_for_namespace fails: list_workgroups, or
\* get_workgroup of a workgroup the listing gives the namespace name.
SomeWorkgroupCallFails ==
    \/ ~call.list_workgroups.ok
    \/ \E i \in 1..Len(call.list_workgroups.workgroups) :
           /\ call.list_workgroups.workgroups[i].namespaceName = call.namespace_name
           /\ call.list_workgroups.workgroups[i].workgroupName
                  \in call.get_workgroup_fails

\* C12: when list_workgroups fails, or get_workgroup fails for any workgroup
\* of the namespace (also one that follows workgroups already fetched),
\* get_workgroups_for_namespace returns the empty list and does not raise.
C12_FailureReturnsEmpty ==
    (Returned /\ SomeWorkgroupCallFails) =>
        /\ ~ret.raised
        /\ ret.value = <<>>

\* C12 witness: the first workgroup of the namespace is fetched, get_workgroup
\* fails for the second one, and the call has returned the empty list.
C12_Witness ==
    /\ Returned
    /\ call.list_workgroups.ok
    /\ Len(call.list_workgroups.workgroups) = 2
    /\ \A i \in 1..2 :
           call.list_workgroups.workgroups[i].namespaceName = call.namespace_name
    /\ call.list_workgroups.workgroups[1].workgroupName
           \notin call.get_workgroup_fails
    /\ call.list_workgroups.workgroups[2].workgroupName \in call.get_workgroup_fails
    /\ ret = Return(<<>>)

(***************************************************************************)
(* Claims about check_iam_permissions                                      *)
(***************************************************************************)
\* Two characters that are equal when case is ignored.
SameLetter(a, b) ==
    \/ a = b
    \/ \E k \in 1..Len(UpperCase) : {a, b} = {UpperCase[k], LowerCase[k]}

\* The name contains the word, compared case-insensitively.
Names(role_name, word) ==
    \E i \in 0..(Len(role_name) - Len(word)) :
        \A k \in 1..Len(word) : SameLetter(role_name[i + k], word[k])

\* The roles of the delivered pages.
DeliveredRoles ==
    UNION {{call.pages[p][i] : i \in DOMAIN call.pages[p]} : p \in DOMAIN call.pages}

\* C11: a listed role whose name contains neither "bedrock" nor "knowledge",
\* compared case-insensitively, is not among bedrock_roles, whatever pages
\* the listing delivered.
C11_OtherRolesExcluded ==
    Returned =>
        /\ ~ret.raised
        /\ \A role \in DeliveredRoles :
               (~Names(role.RoleName, bedrock) /\ ~Names(role.RoleName, knowledge))
                   => \A k \in DOMAIN ret.value.bedrock_roles :
                          ret.value.bedrock_roles[k].role_name # role.RoleName

\* C11 witness: two pages were delivered, a role with neither word on the
\* first and a role whose name has one of the words in upper case on the
\* second; only the second is in bedrock_roles.
C11_Witness ==
    /\ Returned
    /\ Len(call.pages) = 2
    /\ Len(call.pages[1]) = 1
    /\ Len(call.pages[2]) = 1
    /\ ~Names(call.pages[1][1].RoleName, bedrock)
    /\ ~Names(call.pages[1][1].RoleName, knowledge)
    /\ Names(call.pages[2][1].RoleName, knowledge)
    /\ ~Contains(call.pages[2][1].RoleName, knowledge)
    /\ Len(ret.value.bedrock_roles) = 1
    /\ ret.value.bedrock_roles[1].role_name = call.pages[2][1].RoleName

(***************************************************************************)
(* Claims about the failures of get_knowledge_bases_using_workgroup        *)
(***************************************************************************)
ListedKnowledgeBases == call.list_knowledge_bases.knowledgeBaseSummaries

\* One of the calls made for the i-th listed knowledge base fails.
KbCallFails(i) ==
    LET kb == ListedKnowledgeBases[i]
    IN \/ ~kb.get_knowledge_base.ok
       \/ ~kb.list_data_sources.ok
       \/ \E d \in DOMAIN kb.list_data_sources.dataSourceSummaries :
              ~kb.list_data_sources.dataSourceSummaries[d].ok

SomeKbCallFails ==
    \/ ~call.list_knowledge_bases.ok
    \/ \E i \in DOMAIN ListedKnowledgeBases : KbCallFails(i)

\* The knowledge bases that use the workgroup and are listed before any
\* failing call.
KeptKnowledgeBases ==
    {i \in DOMAIN ListedKnowledgeBases :
        /\ \A j \in 1..i : ~KbCallFails(j)
        /\ _kb_uses_workgroup(ListedKnowledgeBases[i].get_knowledge_base.knowledgeBase,
                              call.workgroup_arn)}

\* C13 as stated: when a knowledge-base API call fails, the function returns
\* the empty list and no exception escapes.
C13_FailureReturnsEmpty ==
    (Returned /\ SomeKbCallFails) =>
        /\ ~ret.raised
        /\ ret.value = <<>>

\* C13: no exception escapes get_knowledge_bases_using_workgroup, and it
\* returns one entry for each knowledge base that uses the workgroup and is
\* listed before the first failing call, in listing order: the entries
\* collected before a failure are kept.
C13_FailureKeepsCollected ==
    Returned =>
        /\ ~ret.raised
        /\ Len(ret.value) = Cardinality(KeptKnowledgeBases)
        /\ \A k \in DOMAIN ret.value :
               \E i \in KeptKnowledgeBases :
                   /\ ret.value[k].knowledge_base_id = KnowledgeBaseId[i]
                   /\ Cardinality({j \in KeptKnowledgeBases : j <= i}) = k

\* C13 witness: the first listed knowledge base uses the workgroup and is
\* collected, get_knowledge_base fails for the second, and the first is
\* returned.
C13_Witness ==
    /\ Returned
    /\ Len(ListedKnowledgeBases) = 2
    /\ ~KbCallFails(1)
    /\ ~ListedKnowledgeBases[2].get_knowledge_base.ok
    /\ Len(ret.value) = 1
    /\ ret.value[1].knowledge_base_id = KnowledgeBaseId[1]

(***************************************************************************)
(* Claims about the entry points                                           *)
(***************************************************************************)
\* compare_namespaces raised, or generate_report raised after it returned.
FailureReachedMain ==
    /\ ~call.construct.raised
    /\ \/ call.compare_namespaces.raised
       \/ call.generate_report.raised

\* C14: when a failure leaves compare_namespaces or generate_report, either
\* entry point re-raises it, so that the process exits with a status other
\* than 0, having written no report file.
C14_FailureEndsNonZero ==
    (pc = "exited" /\ FailureReachedMain) =>
        /\ ret.raised
        /\ ret.exit # 0
        /\ ret.files = <<>>

(***************************************************************************)
(* Claims about the record test_database_connectivity returns              *)
(***************************************************************************)
\* C15: in every returned connectivity test, connectivity implies a null
\* error, a positive tables_count implies connectivity, and a non-empty
\* sample_tables implies a positive tables_count, whatever statuses and
\* failures the API calls gave.
C15_ConnectivityTestInvariants ==
    Returned =>
        /\ test_results.connectivity => test_results.error = None
        /\ test_results.tables_count > 0 => test_results.connectivity
        /\ test_results.sample_tables # <<>> => test_results.tables_count > 0

\* C15 witness: the identity query finished, the count query reported
\* tables, the sample query's call raised, and the test has returned without
\* an error.
C15_Witness ==
    /\ Returned
    /\ seen[1] = "FINISHED"
    /\ seen[3] = "raised"
    /\ test_results.connectivity
    /\ test_results.tables_count > 0
    /\ test_results.sample_tables = <<>>
    /\ test_results.error = None

====
